---- MODULE Spec2Model ----
(***************************************************************************)
(* Verification model of the inventory redistribution dashboard:           *)
(*   - the database schema and its row-level-security policies             *)
(*     (the SQL part of src/frontend/src/pages/Redistribution.tsx),        *)
(*   - the REST client apiRequest (src/frontend/src/lib/api.ts),           *)
(*   - the admin approval page Redistribution(), and                       *)
(*   - the kiosk dialog CreateRedistributionDialog().                      *)
(* Each part has its own specification (SpecDb, SpecApi, SpecAdmin,        *)
(* SpecCreate) over the one set of variables; a part's specification       *)
(* leaves the other parts' variables at their initial values.              *)
(***************************************************************************)
EXTENDS Integers, Sequences, FiniteSets, TLC

VARIABLES
    \* ---- database ----
    rlsEnabled,       \* tables with ROW LEVEL SECURITY enabled
    user_roles,       \* rows of user_roles: [user_id, role]
    profiles,         \* rows of profiles: [user_id, kiosk_id]
    redistributions,  \* rows of redistributions
    lastOp,           \* the last client statement and what the database answered
    \* ---- REST client ----
    session,          \* the Supabase session: NULL or its access_token
    call,             \* the apiRequest call under way
    \* ---- admin page Redistribution() ----
    backend,          \* the backend's status of each redistribution
    pendingQuery,     \* useQuery ["admin-redistributions"]: status and items
    walletQuery,      \* useQuery ["admin-wallet"]: status and data
    selectedRedist,   \* useState selectedRedist
    approveDialogOpen,\* useState approveDialogOpen
    approveMutation,  \* useMutation: status, variables, error
    approveSent,      \* the calls of approveRedistribution, in order
    adminToast,       \* the last toast shown
    invalidated,      \* query keys invalidated and not refetched yet
    lastApproveClick, \* history: the redistribution of the last Approve click
    confirms,         \* history: number of Confirm Approval clicks
    allQuery,         \* useQuery ["admin-redistributions-progress"]
    detailsDialogOpen,\* useState detailsDialogOpen
    selectedForDetails,\* useState selectedForDetails
    now,              \* Date.now() at the last Confirm Approval click
    approveInFlight,  \* history: approveRedistribution calls not settled yet
    approvedIds,      \* history: redistributions whose approval succeeded
    \* ---- kiosk dialog CreateRedistributionDialog() ----
    kioskId,          \* useAuth().kioskId: NULL or the user's kiosk
    open,             \* the dialog's open prop
    toKioskId,        \* useState toKioskId
    selectedProduct,  \* useState selectedProduct
    quantity,         \* useState quantity: the field's text
    kiosksQuery,      \* useQuery ["other-kiosks", kioskId]
    productsQuery,    \* useQuery ["kiosk-products", kioskId]
    createMutation,   \* useMutation: status and error
    createSent,       \* the request of the last createRedistribution call
    createToast,      \* the last toast shown
    createInvalidated,\* query keys invalidated by the dialog
    submits,          \* history: number of Create Request clicks
    \* ---- command tables (seen from the service role) ----
    blockchain_commands, \* rows of blockchain_commands
    blockchain_txns,  \* rows of blockchain_txns
    lastCmdOp,        \* the last statement on them and its result
    \* ---- status badges ----
    badges            \* the badges rendered: status and class name

dbVars == <<rlsEnabled, user_roles, profiles, redistributions, lastOp>>
apiVars == <<session, call>>
adminVars ==
    <<backend, pendingQuery, walletQuery, selectedRedist, approveDialogOpen,
      approveMutation, approveSent, adminToast, invalidated, lastApproveClick,
      confirms, allQuery, detailsDialogOpen, selectedForDetails, now,
      approveInFlight, approvedIds>>

createVars ==
    <<kioskId, open, toKioskId, selectedProduct, quantity, kiosksQuery,
      productsQuery, createMutation, createSent, createToast,
      createInvalidated, submits>>

cmdVars == <<blockchain_commands, blockchain_txns, lastCmdOp>>

vars == <<dbVars, apiVars, adminVars, createVars, cmdVars, badges>>

\* What each part's steps leave alone: the other parts' variables.
notDbVars == <<apiVars, adminVars, createVars, cmdVars, badges>>
notApiVars == <<dbVars, adminVars, createVars, cmdVars, badges>>
notAdminVars == <<dbVars, apiVars, createVars, cmdVars, badges>>
notCreateVars == <<dbVars, apiVars, adminVars, cmdVars, badges>>
notCmdVars ==
    <<rlsEnabled, user_roles, profiles, lastOp, apiVars, adminVars,
      createVars, badges>>
notBadgeVars == <<dbVars, apiVars, adminVars, createVars, cmdVars>>

\* SQL NULL / JavaScript null.
NULL == "NULL"

(***************************************************************************)
(* Bounds of the model.                                                    *)
(***************************************************************************)
\* Number of rows the redistributions table may hold.
MaxRows == 1
\* Number of Confirm Approval clicks on the admin page.
MaxConfirms == 2
\* Number of Create Request clicks in the kiosk dialog.
MaxSubmits == 2
\* Largest quantity a kiosk_inventory row holds.
MaxQty == 1
\* Largest value of Date.now() on the admin page, in ms after it is mounted.
MaxNow == 1
\* Number of rows blockchain_commands and blockchain_txns may hold.
MaxCommands == 2
MaxTxns == 1
\* Number of status badges rendered.
MaxBadges == 2

\* Rows of users (auth users); a statement may also come from no user.
Users == {"u1", "u2"}
\* Rows of kiosks.
Kiosks == {"k1", "k2", "k3"}

(***************************************************************************)
(* Schema: enums and tables.                                               *)
(***************************************************************************)
app_role == {"admin", "kiosk"}

redistribution_status ==
    {"requested", "approved", "submitted", "fulfilled",
     "reconciled", "failed", "timed_out"}

\* Every table the schema creates.
Tables ==
    {"users", "admins", "kiosks", "products", "kiosk_inventory",
     "redistributions", "blockchain_commands", "blockchain_txns",
     "profiles", "user_roles"}

\* The ALTER TABLE ... ENABLE ROW LEVEL SECURITY statements of the schema.
EnableRlsStatements ==
    {"redistributions", "blockchain_commands", "blockchain_txns", "kiosks",
     "kiosk_inventory", "products", "profiles"}

\* SQL equality: a comparison with NULL is not true.
SqlEq(a, b) == a # NULL /\ b # NULL /\ a = b

\* EXISTS (SELECT 1 FROM user_roles WHERE user_id = uid AND role = r)
HasRoleRow(uid, r) ==
    \E ur \in user_roles : SqlEq(ur.user_id, uid) /\ SqlEq(ur.role, r)

(***************************************************************************)
(* Row-level-security policies on redistributions.                         *)
(***************************************************************************)
AdminsCanViewAllRedistributions(uid, row) == HasRoleRow(uid, "admin")

\* Mutant: the policy compares from_kiosk_id only.
KiosksCanViewOnlyOutgoing(uid, row) ==
    \E p \in profiles :
        SqlEq(p.user_id, uid) /\ SqlEq(p.kiosk_id, row.from_kiosk_id)

KiosksCanViewTheirOwnRedistributions(uid, row) ==
    \E p \in profiles :
        /\ SqlEq(p.user_id, uid)
        /\ \/ SqlEq(p.kiosk_id, row.from_kiosk_id)
           \/ SqlEq(p.kiosk_id, row.to_kiosk_id)

\* Mutant: the policy does not compare created_by with the caller.
KiosksCanCreateForAnyone(uid, row) == HasRoleRow(uid, "kiosk")

KiosksCanCreateRedistributions(uid, row) ==
    /\ SqlEq(row.created_by, uid)
    /\ HasRoleRow(uid, "kiosk")

\* Mutant: the policy accepts every user that has a role.
AnyRoleCanUpdateRedistributions(uid, row) ==
    \E ur \in user_roles : SqlEq(ur.user_id, uid)

AdminsCanUpdateRedistributions(uid, row) == HasRoleRow(uid, "admin")

(***************************************************************************)
(* Row-level-security policies on kiosks.                                  *)
(***************************************************************************)
AdminsCanViewAllKiosks(uid, row) == HasRoleRow(uid, "admin")

KiosksCanViewTheirOwnKiosk(uid, row) ==
    \E p \in profiles : SqlEq(p.user_id, uid) /\ SqlEq(p.kiosk_id, row.id)

\* The CREATE POLICY statements on redistributions and on kiosks: name,
\* table, command.
Policies ==
    {[name |-> "Admins can view all redistributions",
      table |-> "redistributions", cmd |-> "SELECT"],
     [name |-> "Kiosks can view their own redistributions",
      table |-> "redistributions", cmd |-> "SELECT"],
     [name |-> "Kiosks can create redistributions",
      table |-> "redistributions", cmd |-> "INSERT"],
     [name |-> "Admins can update redistributions",
      table |-> "redistributions", cmd |-> "UPDATE"],
     [name |-> "Admins can view all kiosks",
      table |-> "kiosks", cmd |-> "SELECT"],
     [name |-> "Kiosks can view their own kiosk",
      table |-> "kiosks", cmd |-> "SELECT"]}

\* The USING / WITH CHECK expression of a policy, for caller uid and a row.
PolicyExpr(name, uid, row) ==
    CASE name = "Admins can view all redistributions" ->
            AdminsCanViewAllRedistributions(uid, row)
      [] name = "Kiosks can view their own redistributions" ->
            KiosksCanViewTheirOwnRedistributions(uid, row)
      [] name = "Kiosks can create redistributions" ->
            KiosksCanCreateRedistributions(uid, row)
      [] name = "Admins can update redistributions" ->
            AdminsCanUpdateRedistributions(uid, row)
      [] name = "Admins can view all kiosks" ->
            AdminsCanViewAllKiosks(uid, row)
      [] name = "Kiosks can view their own kiosk" ->
            KiosksCanViewTheirOwnKiosk(uid, row)
      [] OTHER -> FALSE

\* Whether the database lets caller uid apply command cmd to a row of a
\* table: without row-level security every row passes; with it, a row
\* passes when some (permissive) policy for the command accepts it, and no
\* policy for the command means no row.
RowPermitted(table, cmd, uid, row) ==
    IF table \notin rlsEnabled
    THEN TRUE
    ELSE \E p \in Policies :
            p.table = table /\ p.cmd = cmd /\ PolicyExpr(p.name, uid, row)

\* Rows of redistributions a SELECT by uid returns.
Visible(uid) ==
    {r \in redistributions : RowPermitted("redistributions", "SELECT", uid, r)}

\* id UUID PRIMARY KEY DEFAULT uuid_generate_v4(): an id no row holds.
RowIds == 1..MaxRows
FreshId == CHOOSE i \in RowIds : \A r \in redistributions : r.id # i

\* status redistribution_status DEFAULT 'requested'
DefaultStatus == "requested"

NoOp == [cmd |-> "none", uid |-> NULL, id |-> 0, count |-> 0, seen |-> {}]

(***************************************************************************)
(* Database: initial state and client statements.                          *)
(***************************************************************************)
\* UNIQUE(user_id) on user_roles and on profiles.
UniqueUserId(rows) ==
    \A a, b \in rows : a.user_id = b.user_id => a = b

\* Rows the demo-users script may have provisioned. User u1 is provisioned
\* in every possible way (any role or none, any profile or none); the second
\* user u2 is unprovisioned, an admin, or the operator of kiosk k2.
RoleRows ==
    [user_id : {"u1"}, role : app_role]
        \cup {[user_id |-> "u2", role |-> "admin"],
              [user_id |-> "u2", role |-> "kiosk"]}
ProfileRows ==
    [user_id : {"u1"}, kiosk_id : Kiosks \cup {NULL}]
        \cup {[user_id |-> "u2", kiosk_id |-> "k2"]}
Provisioned(roles, profs) ==
    /\ UniqueUserId(roles)
    /\ UniqueUserId(profs)
    /\ ([user_id |-> "u2", kiosk_id |-> "k2"] \in profs)
         <=> ([user_id |-> "u2", role |-> "kiosk"] \in roles)

\* The schema has been applied; user_roles and profiles hold the provisioned
\* rows, redistributions is empty.
ProvisionedDb ==
    /\ rlsEnabled = EnableRlsStatements
    /\ user_roles \in SUBSET RoleRows
    /\ profiles \in SUBSET ProfileRows
    /\ Provisioned(user_roles, profiles)
    /\ redistributions = {}
    /\ lastOp = NoOp

\* INSERT INTO redistributions (...) by caller uid. status is the value the
\* statement gives or, when it gives none (NULL here), the column default.
DbInsert(uid, from, to, status, created_by) ==
    LET row == [id |-> FreshId, from_kiosk_id |-> from, to_kiosk_id |-> to,
                status |-> IF status = NULL THEN DefaultStatus ELSE status,
                created_by |-> created_by]
        ok == RowPermitted("redistributions", "INSERT", uid, row)
    IN  /\ Cardinality(redistributions) < MaxRows
        /\ redistributions' =
             IF ok THEN redistributions \cup {row} ELSE redistributions
        /\ lastOp' = [cmd |-> "INSERT", uid |-> uid, id |-> row.id,
                      count |-> IF ok THEN 1 ELSE 0, seen |-> {}]
        /\ UNCHANGED <<rlsEnabled, user_roles, profiles, notDbVars>>

\* UPDATE redistributions SET col = val WHERE id = id, by caller uid. The
\* statement reaches the rows the caller may SELECT and the UPDATE policy's
\* USING accepts; the new row must pass the policy too (WITH CHECK defaults
\* to USING).
DbUpdate(uid, id, col, val) ==
    LET hit == {r \in Visible(uid) :
                  /\ r.id = id
                  /\ RowPermitted("redistributions", "UPDATE", uid, r)}
        upd(r) == IF col = "status" THEN [r EXCEPT !.status = val]
                  ELSE [r EXCEPT !.to_kiosk_id = val]
        done == {r \in hit :
                   RowPermitted("redistributions", "UPDATE", uid, upd(r))}
    IN  /\ \E r \in redistributions : r.id = id
        /\ redistributions' =
             (redistributions \ done) \cup {upd(r) : r \in done}
        /\ lastOp' = [cmd |-> "UPDATE", uid |-> uid, id |-> id,
                      count |-> Cardinality(done), seen |-> {}]
        /\ UNCHANGED <<rlsEnabled, user_roles, profiles, notDbVars>>

\* DELETE FROM redistributions WHERE id = id, by caller uid.
DbDelete(uid, id) ==
    LET hit == {r \in Visible(uid) :
                  /\ r.id = id
                  /\ RowPermitted("redistributions", "DELETE", uid, r)}
    IN  /\ \E r \in redistributions : r.id = id
        /\ redistributions' = redistributions \ hit
        /\ lastOp' = [cmd |-> "DELETE", uid |-> uid, id |-> id,
                      count |-> Cardinality(hit), seen |-> {}]
        /\ UNCHANGED <<rlsEnabled, user_roles, profiles, notDbVars>>

\* SELECT * FROM redistributions, by caller uid.
DbSelect(uid) ==
    /\ redistributions # {}
    /\ lastOp' = [cmd |-> "SELECT", uid |-> uid, id |-> 0,
                  count |-> Cardinality(Visible(uid)), seen |-> Visible(uid)]
    /\ UNCHANGED <<rlsEnabled, user_roles, profiles, redistributions, notDbVars>>

\* A caller is a signed-in user or nobody (auth.uid() is NULL).
Callers == Users \cup {NULL}

NextDb ==
    \/ \E uid \in Callers, from \in Kiosks, to \in Kiosks,
          st \in redistribution_status \cup {NULL}, cb \in Users :
            DbInsert(uid, from, to, st, cb)
    \/ \E uid \in Callers, id \in RowIds, st \in redistribution_status :
            DbUpdate(uid, id, "status", st)
    \/ \E uid \in Callers, id \in RowIds, k \in Kiosks :
            DbUpdate(uid, id, "to_kiosk_id", k)
    \/ \E uid \in Callers, id \in RowIds : DbDelete(uid, id)
    \/ \E uid \in Callers : DbSelect(uid)

(***************************************************************************)
(* The create dialog's other-kiosks query, as the database answers it.     *)
(***************************************************************************)
\* Rows of kiosks, as a SELECT id reads them.
KioskRows == [id : Kiosks]

\* Rows of kiosks a SELECT by uid returns.
VisibleKiosks(uid) ==
    {k \in KioskRows : RowPermitted("kiosks", "SELECT", uid, k)}

\* supabase.from("kiosks").select("id, name").neq("id", kioskId), run by
\* caller uid with neqId the kioskId the dialog got from useAuth (truthy,
\* or the query is not enabled). seen holds the ids of the rows returned.
OtherKiosksQuery(uid, neqId) ==
    LET data == {k \in VisibleKiosks(uid) : k.id # neqId}
    IN  /\ lastOp' = [cmd |-> "SELECT kiosks", uid |-> uid, id |-> neqId,
                      count |-> Cardinality(data),
                      seen |-> {k.id : k \in data}]
        /\ UNCHANGED <<rlsEnabled, user_roles, profiles, redistributions,
                       notDbVars>>

NextKiosks ==
    \E uid \in Callers, neqId \in Kiosks : OtherKiosksQuery(uid, neqId)

\* The database as the schema leaves it, with nothing provisioned.
ParkedDb ==
    /\ rlsEnabled = EnableRlsStatements
    /\ user_roles = {}
    /\ profiles = {}
    /\ redistributions = {}
    /\ lastOp = NoOp

(***************************************************************************)
(* REST client: apiRequest and the exported calls (lib/api.ts).            *)
(***************************************************************************)
\* JavaScript undefined (an absent field).
UNDEFINED == "<undefined>"

\* Access tokens a session may carry.
Tokens == {"", "t1", "t2"}

\* JavaScript truthiness of a string, null or undefined.
Truthy(v) == v \notin {UNDEFINED, NULL, ""}

\* The exported functions, each with the options it passes to apiRequest.
\* None passes headers.
ApiFunctions ==
    {[fn |-> "createRedistribution", endpoint |-> "/redistributions",
      method |-> "POST", headers |-> UNDEFINED],
     [fn |-> "approveRedistribution", endpoint |-> "/redistributions/:id/approve",
      method |-> "POST", headers |-> UNDEFINED],
     [fn |-> "getRedistribution", endpoint |-> "/redistributions/:id",
      method |-> UNDEFINED, headers |-> UNDEFINED],
     [fn |-> "listRedistributions", endpoint |-> "/redistributions",
      method |-> UNDEFINED, headers |-> UNDEFINED],
     [fn |-> "getCommand", endpoint |-> "/commands/:id",
      method |-> UNDEFINED, headers |-> UNDEFINED],
     [fn |-> "getTransaction", endpoint |-> "/tx/:id",
      method |-> UNDEFINED, headers |-> UNDEFINED],
     [fn |-> "listTransactions", endpoint |-> "/transactions",
      method |-> UNDEFINED, headers |-> UNDEFINED],
     [fn |-> "getHealth", endpoint |-> "/health",
      method |-> UNDEFINED, headers |-> UNDEFINED]}

\* getAuthToken: data.session?.access_token || null
getAuthToken(sess) ==
    IF sess = NULL THEN NULL
    ELSE IF Truthy(sess) THEN sess ELSE NULL

\* The headers apiRequest builds: Content-Type, then (none of) the caller's
\* headers, then Authorization when the token is truthy. A header that is
\* not set is UNDEFINED.
BuildHeaders(token) ==
    [ContentType |-> "application/json",
     Authorization |-> IF Truthy(token) THEN <<"Bearer", token>>
                       ELSE <<UNDEFINED>>]

\* Response bodies: text that is no JSON, the JSON values null and a string,
\* and JSON objects with or without the fields error and data.
ErrorFields ==
    {[kind |-> "undefined"], [kind |-> "null"]}
        \cup [kind : {"object"}, message : {UNDEFINED, "", "boom"}]
Bodies ==
    {[kind |-> "syntax"], [kind |-> "null"], [kind |-> "string"]}
        \cup [kind : {"object"}, error : ErrorFields, data : {UNDEFINED, "d1"}]

\* data.error?.message
ErrorMessage(body) ==
    IF body.kind # "object" THEN UNDEFINED
    ELSE IF body.error.kind # "object" THEN UNDEFINED
    ELSE body.error.message

\* data.data
DataField(body) == IF body.kind # "object" THEN UNDEFINED ELSE body.data

Resolved(v) == [state |-> "resolved", value |-> v, name |-> UNDEFINED]
Rejected(n, m) == [state |-> "rejected", value |-> m, name |-> n]

\* What apiRequest does with a response: response.json(), then the
\* response.ok test. Reading a property of null throws a TypeError.
Settle(ok, body) ==
    IF body.kind = "syntax"
    THEN Rejected("SyntaxError", "Unexpected token")
    ELSE IF body.kind = "null"
    THEN Rejected("TypeError", "Cannot read properties of null")
    ELSE IF ~ok
    THEN Rejected("Error",
                  IF Truthy(ErrorMessage(body)) THEN ErrorMessage(body)
                  ELSE "API request failed")
    ELSE Resolved(DataField(body))

\* Responses the pages' calls are settled with: an ok response with data, a
\* non-ok response with an error message, and a non-ok response without.
UiResponses ==
    {[ok |-> TRUE,
      body |-> [kind |-> "object", error |-> [kind |-> "undefined"],
                data |-> "d1"]],
     [ok |-> FALSE,
      body |-> [kind |-> "object",
                error |-> [kind |-> "object", message |-> "boom"],
                data |-> UNDEFINED]],
     [ok |-> FALSE,
      body |-> [kind |-> "object", error |-> [kind |-> "undefined"],
                data |-> UNDEFINED]]}

IdleCall ==
    [pc |-> "idle", fn |-> UNDEFINED, endpoint |-> UNDEFINED,
     method |-> UNDEFINED, sess |-> UNDEFINED, token |-> UNDEFINED,
     headers |-> UNDEFINED,
     ok |-> FALSE, body |-> UNDEFINED, result |-> UNDEFINED]

SignedOutApi ==
    /\ session = NULL
    /\ call = IdleCall

\* supabase auth: sign in, token refresh (a new access token), sign out.
AuthStateChange(sess) ==
    /\ session # sess
    /\ session' = sess
    /\ UNCHANGED <<call, notApiVars>>

\* An exported function calls apiRequest, which awaits getAuthToken.
ApiRequestStart(f) ==
    /\ call.pc \in {"idle", "settled", "failed"}
    /\ call' = [IdleCall EXCEPT !.pc = "getAuthToken", !.fn = f.fn,
                                !.endpoint = f.endpoint, !.method = f.method]
    /\ UNCHANGED <<session, notApiVars>>

\* getAuthToken reads the session; apiRequest builds the headers and calls
\* fetch, which sends the request.
ApiRequestFetch ==
    /\ call.pc = "getAuthToken"
    /\ call' = [call EXCEPT !.pc = "fetch",
                            !.sess = session,
                            !.token = getAuthToken(session),
                            !.headers = BuildHeaders(getAuthToken(session))]
    /\ UNCHANGED <<session, notApiVars>>

\* The response arrives; apiRequest reads the body and resolves or rejects.
ApiRequestSettle(ok, body) ==
    /\ call.pc = "fetch"
    /\ call' = [call EXCEPT !.pc = "settled", !.ok = ok, !.body = body,
                            !.result = Settle(ok, body)]
    /\ UNCHANGED <<session, notApiVars>>

\* fetch rejects (no connection): apiRequest rejects with fetch's error.
ApiRequestFetchFails ==
    /\ call.pc = "fetch"
    /\ call' = [call EXCEPT !.pc = "failed",
                            !.result = Rejected("TypeError", "Failed to fetch")]
    /\ UNCHANGED <<session, notApiVars>>

NextApi ==
    \/ \E sess \in Tokens \cup {NULL} : AuthStateChange(sess)
    \/ \E f \in ApiFunctions : ApiRequestStart(f)
    \/ ApiRequestFetch
    \/ \E ok \in BOOLEAN, body \in Bodies : ApiRequestSettle(ok, body)
    \/ ApiRequestFetchFails

(***************************************************************************)
(* Admin page: Redistribution() (pages/Redistribution.tsx).                *)
(***************************************************************************)
\* Redistributions the backend holds, and the statuses it moves them through
\* while the page is watched.
RedistIds == {"r1", "r2"}
BackendStatuses == {"requested", "approved"}

\* Wallet addresses the admins row may hold (wallet_address TEXT NOT NULL).
Wallets == {"", "W1"}

NoToast == [kind |-> "none", message |-> UNDEFINED]
IdleMutation ==
    [status |-> "idle", variables |-> UNDEFINED, error |-> UNDEFINED]

\* useState<any>(null): no redistribution object.
NoRedist == [id |-> NULL, status |-> NULL]

\* The item of a list response for redistribution id: a snapshot of the
\* backend's row.
Item(id) == [id |-> id, status |-> backend[id]]

\* Every item a list response may hold.
RedistItems == [id : RedistIds, status : BackendStatuses]

\* Characters of a redistribution id and of a number (Date.now()).
IdChars(id) == IF id = "r1" THEN <<"r", "1">> ELSE <<"r", "2">>
RECURSIVE NumberChars(_)
NumberChars(n) ==
    LET d == CASE n % 10 = 0 -> "0" [] n % 10 = 1 -> "1" [] n % 10 = 2 -> "2"
               [] n % 10 = 3 -> "3" [] n % 10 = 4 -> "4" [] n % 10 = 5 -> "5"
               [] n % 10 = 6 -> "6" [] n % 10 = 7 -> "7" [] n % 10 = 8 -> "8"
               [] OTHER -> "9"
    IN  IF n < 10 THEN <<d>> ELSE NumberChars(n \div 10) \o <<d>>

\* Mutant: the client request id does not carry the time.
approveClientReqIdWithoutTime(redistributionId, t) ==
    <<"a", "p", "p", "r", "o", "v", "e", "-">> \o IdChars(redistributionId)
        \o <<"-">>

\* `approve-${redistributionId}-${Date.now()}`
approveClientReqId(redistributionId, t) ==
    <<"a", "p", "p", "r", "o", "v", "e", "-">> \o IdChars(redistributionId)
        \o <<"-">> \o NumberChars(t)

\* The page as mounted: the queries loading, nothing selected.
MountedAdmin ==
    /\ backend \in [RedistIds -> {"requested"}]
    /\ pendingQuery = [status |-> "pending", hasData |-> FALSE, items |-> {}]
    /\ allQuery = [status |-> "pending", hasData |-> FALSE, items |-> {}]
    /\ walletQuery = [status |-> "pending", data |-> UNDEFINED]
    /\ selectedRedist = NoRedist
    /\ approveDialogOpen = FALSE
    /\ detailsDialogOpen = FALSE
    /\ selectedForDetails = NoRedist
    /\ approveMutation = IdleMutation
    /\ approveSent = <<>>
    /\ approveInFlight = 0
    /\ approvedIds = {}
    /\ adminToast = NoToast
    /\ invalidated = {}
    /\ lastApproveClick = NULL
    /\ confirms = 0
    /\ now = 0

\* redistributionsResponse?.items || []
redistributionsList ==
    IF pendingQuery.hasData THEN pendingQuery.items ELSE {}

\* inProgressResponse?.items || []
allRedistributions ==
    IF allQuery.hasData THEN allQuery.items ELSE {}

\* isLoading of the pending query: no data yet and the first fetch running.
isLoading == pendingQuery.status = "pending"

\* approveMutation.isPending
approveIsPending == approveMutation.status = "pending"

\* The backend (a worker, another admin, the approve endpoint) changes a
\* redistribution's status.
BackendChange(id, st) ==
    /\ backend[id] # st
    /\ backend' = [backend EXCEPT ![id] = st]
    /\ UNCHANGED <<pendingQuery, allQuery, walletQuery, selectedRedist,
                   approveDialogOpen, detailsDialogOpen, selectedForDetails,
                   approveMutation, approveSent, approveInFlight,
                   approvedIds, adminToast, invalidated, lastApproveClick,
                   confirms, now, notAdminVars>>

\* Mutant: a successful fetch of the pending list keeps the data it has.
PendingFetchKeepsData ==
    /\ pendingQuery' =
         IF pendingQuery.hasData THEN pendingQuery
         ELSE [status |-> "success", hasData |-> TRUE,
               items |-> {Item(id) : id \in
                            {r \in RedistIds : backend[r] = "requested"}}]
    /\ invalidated' = invalidated \ {"admin-redistributions"}
    /\ UNCHANGED <<backend, allQuery, walletQuery, selectedRedist,
                   approveDialogOpen, detailsDialogOpen, selectedForDetails,
                   approveMutation, approveSent, approveInFlight,
                   approvedIds, adminToast, lastApproveClick, confirms, now,
                   notAdminVars>>

\* A fetch of listRedistributions({status: "requested"}) (first load, the
\* 5 s poll, or the refetch after invalidation) succeeds.
PendingFetchOk ==
    /\ pendingQuery' =
         [status |-> "success", hasData |-> TRUE,
          items |-> {Item(id) : id \in
                       {r \in RedistIds : backend[r] = "requested"}}]
    /\ invalidated' = invalidated \ {"admin-redistributions"}
    /\ UNCHANGED <<backend, allQuery, walletQuery, selectedRedist,
                   approveDialogOpen, detailsDialogOpen, selectedForDetails,
                   approveMutation, approveSent, approveInFlight,
                   approvedIds, adminToast, lastApproveClick, confirms, now,
                   notAdminVars>>

\* A fetch of the pending list fails: the data of an earlier fetch stays.
PendingFetchFails ==
    /\ pendingQuery' =
         IF pendingQuery.hasData
         THEN pendingQuery
         ELSE [pendingQuery EXCEPT !.status = "error"]
    /\ invalidated' = invalidated \ {"admin-redistributions"}
    /\ UNCHANGED <<backend, allQuery, walletQuery, selectedRedist,
                   approveDialogOpen, detailsDialogOpen, selectedForDetails,
                   approveMutation, approveSent, approveInFlight,
                   approvedIds, adminToast, lastApproveClick, confirms, now,
                   notAdminVars>>

\* A fetch of listRedistributions({}) (first load or the 3 s poll) succeeds.
AllFetchOk ==
    /\ allQuery' =
         [status |-> "success", hasData |-> TRUE,
          items |-> {Item(id) : id \in RedistIds}]
    /\ UNCHANGED <<backend, pendingQuery, walletQuery, selectedRedist,
                   approveDialogOpen, detailsDialogOpen, selectedForDetails,
                   approveMutation, approveSent, approveInFlight,
                   approvedIds, adminToast, invalidated, lastApproveClick,
                   confirms, now, notAdminVars>>

\* A fetch of the list of all redistributions fails: earlier data stays.
AllFetchFails ==
    /\ allQuery' =
         IF allQuery.hasData
         THEN allQuery
         ELSE [allQuery EXCEPT !.status = "error"]
    /\ UNCHANGED <<backend, pendingQuery, walletQuery, selectedRedist,
                   approveDialogOpen, detailsDialogOpen, selectedForDetails,
                   approveMutation, approveSent, approveInFlight,
                   approvedIds, adminToast, invalidated, lastApproveClick,
                   confirms, now, notAdminVars>>

\* The admin-wallet query settles: getUser() gives no user, or the admins
\* select (.single()) gives an error, or it gives a row's wallet_address.
\* A failed refetch keeps the data of an earlier fetch.
WalletQuerySettle(outcome) ==
    /\ walletQuery' =
         IF outcome \in {"Not authenticated", "no admins row"}
         THEN IF walletQuery.data = UNDEFINED
              THEN [walletQuery EXCEPT !.status = "error"]
              ELSE walletQuery
         ELSE [status |-> "success", data |-> outcome]
    /\ walletQuery' # walletQuery
    /\ UNCHANGED <<backend, pendingQuery, allQuery, selectedRedist,
                   approveDialogOpen, detailsDialogOpen, selectedForDetails,
                   approveMutation, approveSent, approveInFlight,
                   approvedIds, adminToast, invalidated, lastApproveClick,
                   confirms, now, notAdminVars>>

\* Mutant: a selection once made is kept.
handleApproveKeepsSelection(redist) ==
    /\ ~isLoading
    /\ redist \in redistributionsList
    /\ ~approveIsPending
    /\ selectedRedist' = IF selectedRedist = NoRedist THEN redist
                         ELSE selectedRedist
    /\ approveDialogOpen' = TRUE
    /\ lastApproveClick' = redist.id
    /\ UNCHANGED <<backend, pendingQuery, allQuery, walletQuery,
                   detailsDialogOpen, selectedForDetails, approveMutation,
                   approveSent, approveInFlight, approvedIds, adminToast,
                   invalidated, confirms, now, notAdminVars>>

\* Mutant: the Approve buttons stay enabled while an approval is pending.
handleApproveWhilePending(redist) ==
    /\ ~isLoading
    /\ redist \in redistributionsList
    /\ selectedRedist' = redist
    /\ approveDialogOpen' = TRUE
    /\ lastApproveClick' = redist.id
    /\ UNCHANGED <<backend, pendingQuery, allQuery, walletQuery,
                   detailsDialogOpen, selectedForDetails, approveMutation,
                   approveSent, approveInFlight, approvedIds, adminToast,
                   invalidated, confirms, now, notAdminVars>>

\* A click on the Approve button of an item of the Pending Requests list
\* (rendered when not loading; disabled while an approval is pending).
handleApprove(redist) ==
    /\ ~isLoading
    /\ redist \in redistributionsList
    /\ ~approveIsPending
    /\ selectedRedist' = redist
    /\ approveDialogOpen' = TRUE
    /\ lastApproveClick' = redist.id
    /\ UNCHANGED <<backend, pendingQuery, allQuery, walletQuery,
                   detailsDialogOpen, selectedForDetails, approveMutation,
                   approveSent, approveInFlight, approvedIds, adminToast,
                   invalidated, confirms, now, notAdminVars>>

\* Mutant: Details marks the item it opens as fulfilled.
handleViewDetailsRewritesStatus(redist) ==
    /\ redist \in allRedistributions
    /\ selectedForDetails' = redist
    /\ detailsDialogOpen' = TRUE
    /\ allQuery' =
         [allQuery EXCEPT !.items =
            (allQuery.items \ {redist})
              \cup {[redist EXCEPT !.status = "fulfilled"]}]
    /\ UNCHANGED <<backend, pendingQuery, walletQuery, selectedRedist,
                   approveDialogOpen, approveMutation, approveSent,
                   approveInFlight, approvedIds, adminToast, invalidated,
                   lastApproveClick, confirms, now, notAdminVars>>

\* A click on the Details button of an item of the All Redistributions list.
handleViewDetails(redist) ==
    /\ redist \in allRedistributions
    /\ selectedForDetails' = redist
    /\ detailsDialogOpen' = TRUE
    /\ UNCHANGED <<backend, pendingQuery, allQuery, walletQuery,
                   selectedRedist, approveDialogOpen, approveMutation,
                   approveSent, approveInFlight, approvedIds, adminToast,
                   invalidated, lastApproveClick, confirms, now,
                   notAdminVars>>

\* Close in the details dialog, or the dialog is dismissed:
\* setDetailsDialogOpen(false).
closeDetails ==
    /\ detailsDialogOpen
    /\ detailsDialogOpen' = FALSE
    /\ UNCHANGED <<backend, pendingQuery, allQuery, walletQuery,
                   selectedRedist, approveDialogOpen, selectedForDetails,
                   approveMutation, approveSent, approveInFlight,
                   approvedIds, adminToast, invalidated, lastApproveClick,
                   confirms, now, notAdminVars>>

\* Mutant: the wallet is never found missing.
walletNeverMissing == FALSE

\* !adminWallet in approveMutation's mutationFn
walletMissing == ~Truthy(walletQuery.data)

\* A click on Confirm Approval (in the open dialog; disabled while an
\* approval is pending) at a time Date.now() not before the last one:
\* confirmApprove, and with a selection
\* approveMutation.mutate(selectedRedist.id), whose mutationFn throws
\* without a wallet (onError shows the toast) and calls
\* approveRedistribution otherwise.
confirmApprove ==
    /\ approveDialogOpen
    /\ ~approveIsPending
    /\ confirms < MaxConfirms
    /\ confirms' = confirms + 1
    /\ now' \in now..MaxNow
    /\ IF selectedRedist = NoRedist
       THEN UNCHANGED <<approveMutation, approveSent, approveInFlight,
                        adminToast>>
       ELSE IF walletMissing
       THEN /\ approveMutation' =
                 [status |-> "error", variables |-> selectedRedist.id,
                  error |-> "Admin wallet not found"]
            /\ adminToast' =
                 [kind |-> "error", message |-> "Admin wallet not found"]
            /\ UNCHANGED <<approveSent, approveInFlight>>
       ELSE /\ approveMutation' =
                 [status |-> "pending", variables |-> selectedRedist.id,
                  error |-> UNDEFINED]
            /\ approveSent' =
                 Append(approveSent,
                        [redistributionId |-> selectedRedist.id,
                         admin_wallet |-> walletQuery.data,
                         client_req_id |->
                           approveClientReqId(selectedRedist.id, now'),
                         at |-> now'])
            /\ approveInFlight' = approveInFlight + 1
            /\ UNCHANGED adminToast
    /\ UNCHANGED <<backend, pendingQuery, allQuery, walletQuery,
                   selectedRedist, approveDialogOpen, detailsDialogOpen,
                   selectedForDetails, approvedIds, invalidated,
                   lastApproveClick, notAdminVars>>

\* Mutant: a successful approval also invalidates the list of all
\* redistributions and leaves the dialog open.
approveSettleInvalidatesAll(result) ==
    /\ approveIsPending
    /\ approveInFlight' = approveInFlight - 1
    /\ IF result.state = "resolved"
       THEN /\ adminToast' =
                 [kind |-> "success",
                  message |-> "Redistribution approved successfully!"]
            /\ invalidated' =
                 invalidated \cup {"admin-redistributions",
                                   "admin-redistributions-progress"}
            /\ approvedIds' = approvedIds \cup {approveMutation.variables}
            /\ approveMutation' =
                 [approveMutation EXCEPT !.status = "success"]
            /\ UNCHANGED <<approveDialogOpen, selectedRedist>>
       ELSE /\ adminToast' =
                 [kind |-> "error",
                  message |-> IF Truthy(result.value) THEN result.value
                              ELSE "Failed to approve redistribution"]
            /\ approveMutation' =
                 [approveMutation EXCEPT !.status = "error",
                                         !.error = result.value]
            /\ UNCHANGED <<invalidated, approveDialogOpen, selectedRedist,
                           approvedIds>>
    /\ UNCHANGED <<backend, pendingQuery, allQuery, walletQuery,
                   detailsDialogOpen, selectedForDetails, approveSent,
                   lastApproveClick, confirms, now, notAdminVars>>

\* The pending approveRedistribution call settles with what apiRequest makes
\* of the response: onSuccess when it resolves, onError when it rejects.
approveSettle(result) ==
    /\ approveIsPending
    /\ approveInFlight' = approveInFlight - 1
    /\ IF result.state = "resolved"
       THEN /\ adminToast' =
                 [kind |-> "success",
                  message |-> "Redistribution approved successfully!"]
            /\ invalidated' = invalidated \cup {"admin-redistributions"}
            /\ approvedIds' = approvedIds \cup {approveMutation.variables}
            /\ approveDialogOpen' = FALSE
            /\ selectedRedist' = NoRedist
            /\ approveMutation' =
                 [approveMutation EXCEPT !.status = "success"]
       ELSE /\ adminToast' =
                 [kind |-> "error",
                  message |-> IF Truthy(result.value) THEN result.value
                              ELSE "Failed to approve redistribution"]
            /\ approveMutation' =
                 [approveMutation EXCEPT !.status = "error",
                                         !.error = result.value]
            /\ UNCHANGED <<invalidated, approveDialogOpen, selectedRedist,
                           approvedIds>>
    /\ UNCHANGED <<backend, pendingQuery, allQuery, walletQuery,
                   detailsDialogOpen, selectedForDetails, approveSent,
                   lastApproveClick, confirms, now, notAdminVars>>

\* A click on Cancel (disabled while an approval is pending).
cancelApprove ==
    /\ approveDialogOpen
    /\ ~approveIsPending
    /\ approveDialogOpen' = FALSE
    /\ UNCHANGED <<backend, pendingQuery, allQuery, walletQuery,
                   selectedRedist, detailsDialogOpen, selectedForDetails,
                   approveMutation, approveSent, approveInFlight,
                   approvedIds, adminToast, invalidated, lastApproveClick,
                   confirms, now, notAdminVars>>

\* The dialog is dismissed (Escape, a click outside): onOpenChange(false).
dismissApproveDialog ==
    /\ approveDialogOpen
    /\ approveDialogOpen' = FALSE
    /\ UNCHANGED <<backend, pendingQuery, allQuery, walletQuery,
                   selectedRedist, detailsDialogOpen, selectedForDetails,
                   approveMutation, approveSent, approveInFlight,
                   approvedIds, adminToast, invalidated, lastApproveClick,
                   confirms, now, notAdminVars>>

\* The approval flow: the pending list, the wallet and the approve dialog.
NextAdmin ==
    \/ \E id \in RedistIds, st \in BackendStatuses : BackendChange(id, st)
    \/ PendingFetchOk
    \/ PendingFetchFails
    \/ \E o \in Wallets \cup {"Not authenticated", "no admins row"} :
          WalletQuerySettle(o)
    \/ \E redist \in RedistItems : handleApprove(redist)
    \/ confirmApprove
    \/ \E r \in UiResponses : approveSettle(Settle(r.ok, r.body))
    \/ cancelApprove
    \/ dismissApproveDialog

\* The two polled lists and the details dialog.
NextLists ==
    \/ \E id \in RedistIds, st \in BackendStatuses : BackendChange(id, st)
    \/ PendingFetchOk
    \/ PendingFetchFails
    \/ AllFetchOk
    \/ AllFetchFails
    \/ \E redist \in RedistItems : handleViewDetails(redist)
    \/ closeDetails

\* The whole page.
NextAdminPage == NextAdmin \/ NextLists

\* The approval flow and the two polls (the details dialog, which touches
\* only its own two state variables, stays closed).
NextAdminPolling == NextAdmin \/ AllFetchOk \/ AllFetchFails

(***************************************************************************)
(* Command tables: blockchain_commands and blockchain_txns, as the service *)
(* role (which row-level security does not restrict) may fill them.        *)
(***************************************************************************)
NoCmdOp == [cmd |-> "none", result |-> "none"]

\* The tables as the schema creates them.
NoCommands ==
    /\ blockchain_commands = {}
    /\ blockchain_txns = {}
    /\ lastCmdOp = NoCmdOp

CommandIds == 1..MaxCommands
TxnIds == 1..MaxTxns

\* Mutant: blockchain_commands without its UNIQUE constraint.
NoUniqueUserClientReq(rows, row) == TRUE

\* UNIQUE(user_id, client_req_id) of blockchain_commands: row may join rows.
UniqueUserClientReq(rows, row) ==
    \A c \in rows :
        ~(c.user_id = row.user_id /\ c.client_req_id = row.client_req_id)

\* redistribution_id ... REFERENCES redistributions(id)
ReferencesRedistribution(rid) == \E r \in redistributions : r.id = rid

\* command_id ... REFERENCES blockchain_commands(id)
ReferencesCommand(cid) == \E c \in blockchain_commands : c.id = cid

\* INSERT INTO redistributions by the service role: a row with a new id and
\* the default status.
ServiceInsertRedistribution(id, from, to, created_by) ==
    /\ ~ReferencesRedistribution(id)
    /\ redistributions' =
         redistributions \cup
           {[id |-> id, from_kiosk_id |-> from, to_kiosk_id |-> to,
             status |-> DefaultStatus, created_by |-> created_by]}
    /\ lastCmdOp' = [cmd |-> "INSERT redistributions", result |-> "ok"]
    /\ UNCHANGED <<blockchain_commands, blockchain_txns, notCmdVars>>

\* INSERT INTO blockchain_commands for the approve request that user_id made
\* at time t for redistribution rid: its client_req_id is the one the admin
\* page builds.  (at is history: the time the request was made.)
InsertCommand(user_id, rid, t) ==
    LET free == {i \in CommandIds : \A c \in blockchain_commands : c.id # i}
        row == [id |-> IF free = {} THEN 0 ELSE CHOOSE i \in free : TRUE,
                user_id |-> user_id,
                client_req_id |-> approveClientReqId(rid, t),
                redistribution_id |-> rid,
                at |-> t]
        result ==
            IF ~ReferencesRedistribution(rid) THEN "foreign_key_violation"
            ELSE IF ~UniqueUserClientReq(blockchain_commands, row)
            THEN "unique_violation"
            ELSE "ok"
    IN  /\ result = "ok" => Cardinality(blockchain_commands) < MaxCommands
        /\ blockchain_commands' =
             IF result = "ok" THEN blockchain_commands \cup {row}
             ELSE blockchain_commands
        /\ lastCmdOp' = [cmd |-> "INSERT blockchain_commands",
                         result |-> result]
        /\ UNCHANGED <<redistributions, blockchain_txns, notCmdVars>>

\* INSERT INTO blockchain_txns for a command and a redistribution.
InsertTxn(command_id, rid) ==
    LET row == [id |-> CHOOSE i \in TxnIds :
                          \A x \in blockchain_txns : x.id # i,
                command_id |-> command_id,
                redistribution_id |-> rid]
        result ==
            IF ReferencesCommand(command_id) /\ ReferencesRedistribution(rid)
            THEN "ok" ELSE "foreign_key_violation"
    IN  /\ Cardinality(blockchain_txns) < MaxTxns
        /\ blockchain_txns' =
             IF result = "ok" THEN blockchain_txns \cup {row}
             ELSE blockchain_txns
        /\ lastCmdOp' = [cmd |-> "INSERT blockchain_txns", result |-> result]
        /\ UNCHANGED <<redistributions, blockchain_commands, notCmdVars>>

\* DELETE FROM redistributions WHERE id = rid: ON DELETE CASCADE removes the
\* commands and transactions that reference the row, and the transactions
\* that reference those commands.
DeleteRedistribution(rid) ==
    LET gone == {c \in blockchain_commands : c.redistribution_id = rid}
    IN  /\ ReferencesRedistribution(rid)
        /\ redistributions' = {r \in redistributions : r.id # rid}
        /\ blockchain_commands' = blockchain_commands \ gone
        /\ blockchain_txns' =
             {x \in blockchain_txns :
                /\ x.redistribution_id # rid
                /\ \A c \in gone : x.command_id # c.id}
        /\ lastCmdOp' = [cmd |-> "DELETE redistributions", result |-> "ok"]
        /\ UNCHANGED notCmdVars

\* DELETE FROM blockchain_commands WHERE id = cid: ON DELETE CASCADE removes
\* its transactions.
DeleteCommand(cid) ==
    /\ ReferencesCommand(cid)
    /\ blockchain_commands' = {c \in blockchain_commands : c.id # cid}
    /\ blockchain_txns' = {x \in blockchain_txns : x.command_id # cid}
    /\ lastCmdOp' = [cmd |-> "DELETE blockchain_commands", result |-> "ok"]
    /\ UNCHANGED <<redistributions, notCmdVars>>

NextCmd ==
    \/ \E id \in RedistIds : ServiceInsertRedistribution(id, "k1", "k2", "u1")
    \/ \E u \in Users, rid \in RedistIds, t \in 0..MaxNow :
          InsertCommand(u, rid, t)
    \/ \E cid \in CommandIds, rid \in RedistIds : InsertTxn(cid, rid)
    \/ \E rid \in RedistIds : DeleteRedistribution(rid)
    \/ \E cid \in CommandIds : DeleteCommand(cid)

(***************************************************************************)
(* Status badges: getStatusColor (pages/Redistribution.tsx).               *)
(***************************************************************************)
\* Status strings a badge may be rendered for: the enum's values and some
\* strings outside it.
StatusStrings ==
    redistribution_status \cup {"", "REQUESTED", "pending", "unknown"}

\* Mutant: 'failed' has no case of its own.
getStatusColorWithoutFailed(status) ==
    CASE status = "requested" -> "bg-warning/30 text-warning"
      [] status = "approved" -> "bg-blue-500/30 text-blue-500"
      [] status = "submitted" -> "bg-purple-500/30 text-purple-500"
      [] status = "fulfilled" -> "bg-green-500/30 text-green-500"
      [] status = "reconciled" -> "bg-emerald-500/30 text-emerald-500"
      [] OTHER -> "bg-secondary"

\* getStatusColor: the switch over status.
getStatusColor(status) ==
    CASE status = "requested" -> "bg-warning/30 text-warning"
      [] status = "approved" -> "bg-blue-500/30 text-blue-500"
      [] status = "submitted" -> "bg-purple-500/30 text-purple-500"
      [] status = "fulfilled" -> "bg-green-500/30 text-green-500"
      [] status = "reconciled" -> "bg-emerald-500/30 text-emerald-500"
      [] status = "failed" -> "bg-destructive/30 text-destructive"
      [] OTHER -> "bg-secondary"

\* No badge rendered yet.
NoBadges == badges = <<>>

\* A badge of All Redistributions is rendered for an item with this status.
renderBadge(status) ==
    /\ Len(badges) < MaxBadges
    /\ badges' =
         Append(badges,
                [status |-> status, className |-> getStatusColor(status)])
    /\ UNCHANGED notBadgeVars

NextBadge == \E status \in StatusStrings : renderBadge(status)

(***************************************************************************)
(* Kiosk dialog: CreateRedistributionDialog() (pages/Redistribution.tsx).  *)
(***************************************************************************)
\* Kiosks a dialog user may belong to or send to, and the products.
DialogKiosks == {"k1", "k2"}
Products == {"p1", "p2"}
Sku(p) == IF p = "p1" THEN "PROD-001" ELSE "PROD-002"

\* Values of the quantity field, as sequences of characters: the field is an
\* <input type="number">, whose value is empty or a floating-point literal.
QuantityInputs ==
    {<<>>, <<"0">>, <<"1">>, <<"2">>, <<"-", "1">>, <<".", "5">>,
     <<"1", ".", "5">>}

IsDigit(c) == c \in {"0", "1", "2", "3", "4", "5", "6", "7", "8", "9"}
DigitValue(c) ==
    CASE c = "0" -> 0 [] c = "1" -> 1 [] c = "2" -> 2 [] c = "3" -> 3
      [] c = "4" -> 4 [] c = "5" -> 5 [] c = "6" -> 6 [] c = "7" -> 7
      [] c = "8" -> 8 [] c = "9" -> 9

RECURSIVE SkipWhitespace(_)
SkipWhitespace(str) ==
    IF str # <<>> /\ Head(str) = " " THEN SkipWhitespace(Tail(str)) ELSE str

\* The value of the longest prefix of digits of str after value acc.
RECURSIVE DigitPrefix(_, _)
DigitPrefix(str, acc) ==
    IF str # <<>> /\ IsDigit(Head(str))
    THEN DigitPrefix(Tail(str), 10 * acc + DigitValue(Head(str)))
    ELSE acc

\* JavaScript parseInt(str): leading whitespace is skipped, a sign is read,
\* then digits up to the first other character; NaN when there is no digit.
parseInt(str) ==
    LET t == SkipWhitespace(str)
        signed == t # <<>> /\ Head(t) \in {"-", "+"}
        u == IF signed THEN Tail(t) ELSE t
        magnitude == DigitPrefix(u, 0)
    IN  IF u = <<>> \/ ~IsDigit(Head(u))
        THEN [nan |-> TRUE, val |-> 0]
        ELSE [nan |-> FALSE,
              val |-> IF signed /\ Head(t) = "-" THEN 0 - magnitude
                      ELSE magnitude]

\* Answers of the kiosk_inventory query: for some products a row with a
\* quantity > 0 (the query's .gt("quantity", 0)).
ProductAnswers ==
    UNION {[S -> 1..MaxQty] : S \in SUBSET Products}
ProductItems(answer) ==
    {[id |-> p, sku |-> Sku(p), available_quantity |-> answer[p]] :
        p \in DOMAIN answer}

NoData == [hasData |-> FALSE, items |-> {}]
NoError == [text |-> UNDEFINED, n |-> 0]
IdleCreate == [status |-> "idle", error |-> NoError]
\* No createRedistribution call yet.
NoRequest ==
    [from_kiosk_id |-> UNDEFINED, to_kiosk_id |-> UNDEFINED, items |-> <<>>,
     client_req_id |-> UNDEFINED, signature |-> UNDEFINED,
     public_key |-> UNDEFINED]

\* The dialog as first rendered: closed, the form empty, nobody signed in.
RenderedCreate ==
    /\ kioskId = NULL
    /\ open = FALSE
    /\ toKioskId = ""
    /\ selectedProduct = ""
    /\ quantity = <<>>
    /\ kiosksQuery = NoData
    /\ productsQuery = NoData
    /\ createMutation = IdleCreate
    /\ createSent = NoRequest
    /\ createToast = NoToast
    /\ createInvalidated = {}
    /\ submits = 0

createIsPending == createMutation.status = "pending"

\* products?.find(p => p.id === selectedProduct): the items found (none or
\* one).
findProduct ==
    {p \in productsQuery.items : productsQuery.hasData /\ p.id = selectedProduct}

\* Mutant: the quantity is not compared with the available quantity.
createValidationIgnoresStock ==
    IF \/ kioskId = NULL
       \/ toKioskId = ""
       \/ selectedProduct = ""
       \/ quantity = <<>>
    THEN [text |-> "Please fill all fields", n |-> 0]
    ELSE IF findProduct = {}
    THEN [text |-> "Product not found", n |-> 0]
    ELSE IF parseInt(quantity).nan \/ parseInt(quantity).val <= 0
    THEN [text |-> "Invalid quantity", n |-> 0]
    ELSE NoError

\* The checks of createMutation's mutationFn, in its order: the error it
\* throws, or NoError when it goes on to call createRedistribution.
createValidation ==
    IF \/ kioskId = NULL
       \/ toKioskId = ""
       \/ selectedProduct = ""
       \/ quantity = <<>>
    THEN [text |-> "Please fill all fields", n |-> 0]
    ELSE IF findProduct = {}
    THEN [text |-> "Product not found", n |-> 0]
    ELSE IF parseInt(quantity).nan \/ parseInt(quantity).val <= 0
    THEN [text |-> "Invalid quantity", n |-> 0]
    ELSE LET product == CHOOSE p \in findProduct : TRUE
         IN  IF parseInt(quantity).val > product.available_quantity
             THEN [text |-> "Only N units available",
                   n |-> product.available_quantity]
             ELSE NoError

\* The request mutationFn builds once the checks pass.
createRequest ==
    LET product == CHOOSE p \in findProduct : TRUE
    IN  [from_kiosk_id |-> kioskId,
         to_kiosk_id |-> toKioskId,
         items |-> <<[sku |-> product.sku,
                      quantity |-> parseInt(quantity).val]>>,
         client_req_id |-> "req-<now>-<random>",
         signature |-> "",
         public_key |-> ""]

\* useAuth() gives another kioskId (sign-in, sign-out, another user): the
\* two queries get a new key and have no data for it yet.
authChange(k) ==
    /\ kioskId # k
    /\ kioskId' = k
    /\ kiosksQuery' = NoData
    /\ productsQuery' = NoData
    /\ UNCHANGED <<open, toKioskId, selectedProduct, quantity,
                   createMutation, createSent, createToast,
                   createInvalidated, submits, notCreateVars>>

\* The parent opens the dialog.
openDialog ==
    /\ ~open
    /\ open' = TRUE
    /\ UNCHANGED <<kioskId, toKioskId, selectedProduct, quantity,
                   kiosksQuery, productsQuery, createMutation, createSent,
                   createToast, createInvalidated, submits, notCreateVars>>

\* Cancel, or the dialog is dismissed: onOpenChange(false).
cancelCreate ==
    /\ open
    /\ open' = FALSE
    /\ UNCHANGED <<kioskId, toKioskId, selectedProduct, quantity,
                   kiosksQuery, productsQuery, createMutation, createSent,
                   createToast, createInvalidated, submits, notCreateVars>>

\* The other-kiosks query (enabled with a kioskId and the dialog open)
\* answers with kiosks whose id is not kioskId.
kiosksFetchOk(answer) ==
    /\ kioskId # NULL /\ open
    /\ answer \subseteq DialogKiosks \ {kioskId}
    /\ kiosksQuery' = [hasData |-> TRUE, items |-> answer]
    /\ kiosksQuery' # kiosksQuery
    /\ UNCHANGED <<kioskId, open, toKioskId, selectedProduct, quantity,
                   productsQuery, createMutation, createSent, createToast,
                   createInvalidated, submits, notCreateVars>>

\* The kiosk-products query (enabled alike) answers with the kiosk's
\* inventory rows of quantity > 0.
productsFetchOk(answer) ==
    /\ kioskId # NULL /\ open
    /\ productsQuery' = [hasData |-> TRUE, items |-> ProductItems(answer)]
    /\ productsQuery' # productsQuery
    /\ UNCHANGED <<kioskId, open, toKioskId, selectedProduct, quantity,
                   kiosksQuery, createMutation, createSent, createToast,
                   createInvalidated, submits, notCreateVars>>

\* The user picks a destination among the listed kiosks.
setToKioskId(k) ==
    /\ open
    /\ k \in kiosksQuery.items
    /\ toKioskId # k
    /\ toKioskId' = k
    /\ UNCHANGED <<kioskId, open, selectedProduct, quantity, kiosksQuery,
                   productsQuery, createMutation, createSent, createToast,
                   createInvalidated, submits, notCreateVars>>

\* The user picks a product among the listed products.
setSelectedProduct(p) ==
    /\ open
    /\ \E item \in productsQuery.items : item.id = p
    /\ selectedProduct # p
    /\ selectedProduct' = p
    /\ UNCHANGED <<kioskId, open, toKioskId, quantity, kiosksQuery,
                   productsQuery, createMutation, createSent, createToast,
                   createInvalidated, submits, notCreateVars>>

\* The user edits the quantity field.
setQuantity(q) ==
    /\ open
    /\ quantity # q
    /\ quantity' = q
    /\ UNCHANGED <<kioskId, open, toKioskId, selectedProduct, kiosksQuery,
                   productsQuery, createMutation, createSent, createToast,
                   createInvalidated, submits, notCreateVars>>

\* Mutant: Create Request stays enabled while a request is pending.
submitCreateWhilePending ==
    /\ open
    /\ toKioskId # "" /\ selectedProduct # "" /\ quantity # <<>>
    /\ submits < MaxSubmits
    /\ submits' = submits + 1
    /\ IF createValidation # NoError
       THEN /\ createMutation' =
                 [status |-> "error", error |-> createValidation]
            /\ createToast' =
                 [kind |-> "error", message |-> createValidation]
            /\ UNCHANGED createSent
       ELSE /\ createMutation' = [status |-> "pending", error |-> NoError]
            /\ createSent' = createRequest
            /\ UNCHANGED createToast
    /\ UNCHANGED <<kioskId, open, toKioskId, selectedProduct, quantity,
                   kiosksQuery, productsQuery, createInvalidated,
                   notCreateVars>>

\* A click on Create Request (disabled while a request is pending or a form
\* field is empty): createMutation.mutate(), whose mutationFn throws the
\* first failing check's error (onError shows the toast) or calls
\* createRedistribution.
submitCreate ==
    /\ open
    /\ ~createIsPending
    /\ toKioskId # "" /\ selectedProduct # "" /\ quantity # <<>>
    /\ submits < MaxSubmits
    /\ submits' = submits + 1
    /\ IF createValidation # NoError
       THEN /\ createMutation' =
                 [status |-> "error", error |-> createValidation]
            /\ createToast' =
                 [kind |-> "error", message |-> createValidation]
            /\ UNCHANGED createSent
       ELSE /\ createMutation' = [status |-> "pending", error |-> NoError]
            /\ createSent' = createRequest
            /\ UNCHANGED createToast
    /\ UNCHANGED <<kioskId, open, toKioskId, selectedProduct, quantity,
                   kiosksQuery, productsQuery, createInvalidated,
                   notCreateVars>>

\* Mutant: a successful request leaves the form as it is.
createSettleKeepsForm(result) ==
    /\ createIsPending
    /\ IF result.state = "resolved"
       THEN /\ createToast' =
                 [kind |-> "success",
                  message |->
                    [text |-> "Redistribution request created successfully!",
                     n |-> 0]]
            /\ createInvalidated' =
                 createInvalidated \cup {"kiosk-redistributions"}
            /\ open' = FALSE
            /\ UNCHANGED <<toKioskId, selectedProduct, quantity>>
            /\ createMutation' = [status |-> "success", error |-> NoError]
       ELSE /\ createToast' =
                 [kind |-> "error",
                  message |->
                    [text |-> IF Truthy(result.value) THEN result.value
                              ELSE "Failed to create request",
                     n |-> 0]]
            /\ createMutation' =
                 [status |-> "error",
                  error |-> [text |-> result.value, n |-> 0]]
            /\ UNCHANGED <<createInvalidated, open, toKioskId,
                           selectedProduct, quantity>>
    /\ UNCHANGED <<kioskId, kiosksQuery, productsQuery, createSent, submits,
                   notCreateVars>>

\* The pending createRedistribution call settles: onSuccess when apiRequest
\* resolves, onError when it rejects.
createSettle(result) ==
    /\ createIsPending
    /\ IF result.state = "resolved"
       THEN /\ createToast' =
                 [kind |-> "success",
                  message |->
                    [text |-> "Redistribution request created successfully!",
                     n |-> 0]]
            /\ createInvalidated' =
                 createInvalidated \cup {"kiosk-redistributions"}
            /\ open' = FALSE
            /\ toKioskId' = ""
            /\ selectedProduct' = ""
            /\ quantity' = <<>>
            /\ createMutation' = [status |-> "success", error |-> NoError]
       ELSE /\ createToast' =
                 [kind |-> "error",
                  message |->
                    [text |-> IF Truthy(result.value) THEN result.value
                              ELSE "Failed to create request",
                     n |-> 0]]
            /\ createMutation' =
                 [status |-> "error",
                  error |-> [text |-> result.value, n |-> 0]]
            /\ UNCHANGED <<createInvalidated, open, toKioskId,
                           selectedProduct, quantity>>
    /\ UNCHANGED <<kioskId, kiosksQuery, productsQuery, createSent, submits,
                   notCreateVars>>

NextCreate ==
    \/ \E k \in DialogKiosks \cup {NULL} : authChange(k)
    \/ openDialog
    \/ cancelCreate
    \/ \E answer \in SUBSET DialogKiosks : kiosksFetchOk(answer)
    \/ \E answer \in ProductAnswers : productsFetchOk(answer)
    \/ \E k \in DialogKiosks : setToKioskId(k)
    \/ \E p \in Products : setSelectedProduct(p)
    \/ \E q \in QuantityInputs : setQuantity(q)
    \/ submitCreate
    \/ \E r \in UiResponses : createSettle(Settle(r.ok, r.body))

(***************************************************************************)
(* Specifications, one per part.                                           *)
(***************************************************************************)
InitDb == ProvisionedDb /\ SignedOutApi /\ MountedAdmin /\ RenderedCreate /\ NoCommands /\ NoBadges
SpecDb == InitDb /\ [][NextDb]_vars

InitKiosks == ProvisionedDb /\ SignedOutApi /\ MountedAdmin /\ RenderedCreate /\ NoCommands /\ NoBadges
SpecKiosks == InitKiosks /\ [][NextKiosks]_vars

InitApi == ParkedDb /\ SignedOutApi /\ MountedAdmin /\ RenderedCreate /\ NoCommands /\ NoBadges
SpecApi == InitApi /\ [][NextApi]_vars

\* A browser session of one user: the admin page belongs to the admin role
\* and the create dialog to the kiosk role, so a session works with one of
\* them while the other stays as first rendered.
NextUi ==
    \/ RenderedCreate /\ NextAdmin
    \/ MountedAdmin /\ NextCreate
InitUi == ParkedDb /\ SignedOutApi /\ MountedAdmin /\ RenderedCreate /\ NoCommands /\ NoBadges
SpecUi == InitUi /\ [][NextUi]_vars

InitBadge == ParkedDb /\ SignedOutApi /\ MountedAdmin /\ RenderedCreate /\ NoCommands /\ NoBadges
SpecBadge == InitBadge /\ [][NextBadge]_vars

InitCmd == ParkedDb /\ SignedOutApi /\ MountedAdmin /\ RenderedCreate /\ NoCommands /\ NoBadges
SpecCmd == InitCmd /\ [][NextCmd]_vars

InitAdminPage == ParkedDb /\ SignedOutApi /\ MountedAdmin /\ RenderedCreate /\ NoCommands /\ NoBadges
SpecAdminPage == InitAdminPage /\ [][NextAdminPage]_vars

\* The page while its two polls keep running and their fetches keep
\* succeeding (refetchInterval 5000 and 3000).
InitAdminLive == ParkedDb /\ SignedOutApi /\ MountedAdmin /\ RenderedCreate /\ NoCommands /\ NoBadges
SpecAdminLive ==
    /\ InitAdminLive
    /\ [][NextAdminPolling]_vars
    /\ WF_vars(PendingFetchOk)
    /\ WF_vars(AllFetchOk)

InitAdmin == ParkedDb /\ SignedOutApi /\ MountedAdmin /\ RenderedCreate /\ NoCommands /\ NoBadges
SpecAdmin == InitAdmin /\ [][NextAdmin]_vars

InitCreate == ParkedDb /\ SignedOutApi /\ MountedAdmin /\ RenderedCreate /\ NoCommands /\ NoBadges
SpecCreate == InitCreate /\ [][NextCreate]_vars

(***************************************************************************)
(* Claims about the database.                                              *)
(***************************************************************************)
\* The lifecycle's immediate successors:
\* requested -> approved -> submitted -> fulfilled -> reconciled | failed |
\* timed_out.
LifecycleSuccessor(a, b) ==
    \/ a = "requested" /\ b = "approved"
    \/ a = "approved" /\ b = "submitted"
    \/ a = "submitted" /\ b = "fulfilled"
    \/ a = "fulfilled" /\ b \in {"reconciled", "failed", "timed_out"}

\* C1: every update the schema and its policies permit leaves a
\* redistribution's status as it was or moves it to a lifecycle successor.
C1_StatusOnlyMovesForward ==
    [][\A r \in redistributions : \A s \in redistributions' :
          s.id = r.id =>
            (s.status = r.status \/ LifecycleSuccessor(r.status, s.status))]_vars

\* C7: a row of redistributions changes only by an UPDATE whose caller has
\* a user_roles row with role 'admin'; a caller with role 'kiosk' changes
\* nothing, and no statement removes a row.
C7_OnlyAdminsUpdateNobodyDeletes ==
    [][(\E r \in redistributions : r \notin redistributions') =>
          /\ lastOp'.cmd = "UPDATE"
          /\ [user_id |-> lastOp'.uid, role |-> "admin"] \in user_roles
          /\ [user_id |-> lastOp'.uid, role |-> "kiosk"] \notin user_roles
          /\ \A r \in redistributions :
                \E s \in redistributions' : s.id = r.id]_vars

\* C7 witness: a kiosk-role user tried to UPDATE a redistribution created by
\* themselves from their own kiosk, and the statement changed no row.
C7_Witness ==
    /\ lastOp.cmd = "UPDATE"
    /\ lastOp.count = 0
    /\ [user_id |-> lastOp.uid, role |-> "kiosk"] \in user_roles
    /\ \E r \in redistributions :
          /\ r.id = lastOp.id
          /\ r.created_by = lastOp.uid
          /\ [user_id |-> lastOp.uid, kiosk_id |-> r.from_kiosk_id] \in profiles

\* C8: a row enters redistributions only by an INSERT whose caller has a
\* user_roles row with role 'kiosk' and whose created_by is the caller.
C8_OnlyKiosksInsertAsThemselves ==
    [][\A s \in redistributions' :
          (\A r \in redistributions : r.id # s.id) =>
            /\ lastOp'.cmd = "INSERT"
            /\ lastOp'.uid # NULL
            /\ s.created_by = lastOp'.uid
            /\ [user_id |-> lastOp'.uid, role |-> "kiosk"] \in user_roles]_vars

\* C8 witness: a kiosk-role user inserted a redistribution of their own.
C8_Witness ==
    /\ lastOp.cmd = "INSERT"
    /\ lastOp.count = 1
    /\ \E r \in redistributions :
          r.id = lastOp.id /\ r.created_by = lastOp.uid

\* C9: a SELECT by an admin returns every redistribution; a SELECT by anyone
\* else returns exactly the redistributions whose from_kiosk_id or
\* to_kiosk_id is the kiosk_id of the caller's profile.
C9_ReadVisibility ==
    lastOp.cmd = "SELECT" =>
        IF [user_id |-> lastOp.uid, role |-> "admin"] \in user_roles
        THEN lastOp.seen = redistributions
        ELSE lastOp.seen =
               {r \in redistributions :
                  \E k \in {r.from_kiosk_id, r.to_kiosk_id} :
                     [user_id |-> lastOp.uid, kiosk_id |-> k] \in profiles}

\* C9 witness: a user who is no admin and has a profile at one kiosk ran a
\* SELECT while a redistribution between two other kiosks existed, and saw
\* nothing.
C9_Witness ==
    /\ lastOp.cmd = "SELECT"
    /\ lastOp.seen = {}
    /\ [user_id |-> lastOp.uid, role |-> "admin"] \notin user_roles
    /\ \E p \in profiles, r \in redistributions :
          /\ p.user_id = lastOp.uid
          /\ p.kiosk_id \in Kiosks
          /\ r.from_kiosk_id # p.kiosk_id
          /\ r.to_kiosk_id # p.kiosk_id
          /\ r.from_kiosk_id # r.to_kiosk_id

\* C10: every table the schema creates has row-level security enabled.
C10_RlsEnabledOnAllTables == \A t \in Tables : t \in rlsEnabled

(***************************************************************************)
(* Claims about the REST client.                                           *)
(***************************************************************************)
\* The request of the call under way has been handed to fetch.
RequestSent == call.pc \in {"fetch", "settled", "failed"}

\* C2: every request apiRequest sends carries Authorization: Bearer <token>,
\* the access token of the session read at the start of the call.
C2_EveryRequestAuthenticated ==
    RequestSent =>
        /\ call.sess # NULL
        /\ call.headers.Authorization = <<"Bearer", call.sess>>

\* Supporting check for C2: a request sent while the session read carries a
\* non-empty access token has the header with that token.
ApiAuthenticatedWhenSignedIn ==
    (RequestSent /\ call.sess \notin {NULL, ""}) =>
        call.headers.Authorization = <<"Bearer", call.sess>>

\* C3: for a non-ok response apiRequest rejects with the body's
\* error.message when that is non-empty and with 'API request failed'
\* otherwise; for an ok response it resolves with the body's data field; a
\* body that is no JSON rejects either way.
C3_SettlesByResponse ==
    call.pc = "settled" =>
        IF call.body.kind = "syntax"
        THEN call.result.state = "rejected"
        ELSE IF ~call.ok
        THEN /\ call.result.state = "rejected"
             /\ call.result.name = "Error"
             /\ call.result.value =
                  IF /\ call.body.kind = "object"
                     /\ call.body.error.kind = "object"
                     /\ call.body.error.message \notin {UNDEFINED, ""}
                  THEN call.body.error.message
                  ELSE "API request failed"
        ELSE /\ call.result.state = "resolved"
             /\ call.result.value =
                  IF call.body.kind = "object" THEN call.body.data
                  ELSE UNDEFINED

\* Supporting check for C3: the statement holds of every response whose
\* body is not the JSON value null, and a null body always rejects with a
\* TypeError.
ApiSettlesByResponseUnlessNull ==
    call.pc = "settled" =>
        IF call.body.kind = "null"
        THEN call.result.state = "rejected" /\ call.result.name = "TypeError"
        ELSE C3_SettlesByResponse

\* C19: every newly inserted redistribution starts the lifecycle at
\* 'requested': no row enters the table with another status.
C19_NewRowsStartRequested ==
    [][\A r \in redistributions' :
          (\A q \in redistributions : q.id # r.id) =>
              r.status = "requested"]_vars

\* Supporting check for C19 in the create dialog: a request sent carries
\* exactly the six fields of CreateRedistributionRequest, none of them a
\* status.
CreateRequestCarriesNoStatus ==
    DOMAIN createSent =
        {"from_kiosk_id", "to_kiosk_id", "items", "client_req_id",
         "signature", "public_key"}

(***************************************************************************)
(* Claims about the status badges.                                         *)
(***************************************************************************)
\* C20: getStatusColor gives every status string a class: 'requested',
\* 'approved', 'submitted', 'fulfilled', 'reconciled' and 'failed' get six
\* pairwise distinct classes, none of them the default, and every other
\* string, 'timed_out' included, gets the default class 'bg-secondary'.
C20_StatusColours ==
    LET Coloured == {"requested", "approved", "submitted", "fulfilled",
                     "reconciled", "failed"}
    IN  \A i, j \in 1..Len(badges) :
            /\ badges[i].status \notin Coloured =>
                  badges[i].className = "bg-secondary"
            /\ badges[i].status \in Coloured =>
                  badges[i].className # "bg-secondary"
            /\ (/\ badges[i].status \in Coloured
                /\ badges[j].status \in Coloured
                /\ badges[i].status # badges[j].status) =>
                  badges[i].className # badges[j].className

\* C20 witness: a badge was rendered for 'failed' and one for 'timed_out':
\* the first has the destructive class, the second the default class.
C20_Witness ==
    /\ Len(badges) = 2
    /\ badges[1] = [status |-> "failed",
                    className |-> "bg-destructive/30 text-destructive"]
    /\ badges[2] = [status |-> "timed_out", className |-> "bg-secondary"]

(***************************************************************************)
(* Claims about the command tables.                                        *)
(***************************************************************************)
\* C14: blockchain_commands never holds two rows with the same (user_id,
\* client_req_id); every command references an existing redistribution and
\* every transaction an existing command and redistribution (deleting a
\* redistribution deletes them); and two approve requests for the same
\* redistribution carry the same client_req_id only if they were made in
\* the same millisecond.
C14_CommandsDeduplicated ==
    /\ \A c1, c2 \in blockchain_commands :
          (c1.user_id = c2.user_id /\ c1.client_req_id = c2.client_req_id)
              => c1 = c2
    /\ \A c \in blockchain_commands :
          \E r \in redistributions : r.id = c.redistribution_id
    /\ \A x \in blockchain_txns :
          /\ \E r \in redistributions : r.id = x.redistribution_id
          /\ \E c \in blockchain_commands : c.id = x.command_id
    /\ \A c1, c2 \in blockchain_commands :
          (c1.redistribution_id = c2.redistribution_id
             /\ c1.client_req_id = c2.client_req_id)
              => c1.at = c2.at

\* C14 witness: a second command of the same user with the same
\* client_req_id was just refused, while another user's command with that
\* client_req_id (made in the same millisecond) is in the table.
C14_Witness ==
    /\ lastCmdOp = [cmd |-> "INSERT blockchain_commands",
                    result |-> "unique_violation"]
    /\ \E c1, c2 \in blockchain_commands :
          /\ c1.user_id # c2.user_id
          /\ c1.client_req_id = c2.client_req_id
          /\ c1.at = c2.at

\* Supporting check for C14 on the admin page: two approveRedistribution
\* calls for the same redistribution carry the same client_req_id only if
\* Date.now() was the same at both.
ApproveRequestIdsCarryTime ==
    \A i, j \in 1..Len(approveSent) :
        (approveSent[i].redistributionId = approveSent[j].redistributionId
           /\ approveSent[i].client_req_id = approveSent[j].client_req_id)
            => approveSent[i].at = approveSent[j].at

(***************************************************************************)
(* Claims about the lists of the admin page.                               *)
(***************************************************************************)
\* C12: the page never rewrites the status of an item it holds.  The items
\* of a list change only in a step that is no user action and no mutation
\* callback, and then the list becomes the backend's answer; the objects
\* kept for the two dialogs are copies of list items; a Confirm Approval
\* click only sends a request, and a successful approval only invalidates
\* the pending query.
C12_FrontEndNeverTransitionsStatus ==
    [][/\ (pendingQuery'.items # pendingQuery.items
            \/ allQuery'.items # allQuery.items) =>
             /\ UNCHANGED <<selectedRedist, approveDialogOpen,
                            detailsDialogOpen, selectedForDetails,
                            approveMutation, approveSent, adminToast,
                            confirms, lastApproveClick, approvedIds>>
             /\ pendingQuery'.items # pendingQuery.items =>
                  pendingQuery'.items =
                    {Item(id) : id \in
                       {r \in RedistIds : backend[r] = "requested"}}
             /\ allQuery'.items # allQuery.items =>
                  allQuery'.items = {Item(id) : id \in RedistIds}
       /\ selectedRedist' # selectedRedist =>
             selectedRedist' \in redistributionsList \cup {NoRedist}
       /\ selectedForDetails' # selectedForDetails =>
             selectedForDetails' \in allRedistributions
       /\ approveSent' # approveSent =>
             /\ confirms' = confirms + 1
             /\ invalidated' = invalidated
       /\ invalidated' # invalidated =>
             \/ invalidated' = invalidated \ {"admin-redistributions"}
             \/ /\ approveMutation.status = "pending"
                /\ approveMutation'.status = "success"
                /\ invalidated' = invalidated \cup {"admin-redistributions"}
      ]_vars

\* C12 witness: the approval of r1 has succeeded and the backend holds r1 as
\* approved, but no list response has arrived since: both lists still show
\* r1 with status 'requested', and so does the open details dialog.
C12_Witness ==
    /\ approvedIds = {"r1"}
    /\ backend["r1"] = "approved"
    /\ [id |-> "r1", status |-> "requested"] \in redistributionsList
    /\ [id |-> "r1", status |-> "requested"] \in allRedistributions
    /\ detailsDialogOpen
    /\ selectedForDetails = [id |-> "r1", status |-> "requested"]

(***************************************************************************)
(* Claims about the create dialog.                                         *)
(***************************************************************************)
\* C4: a Create Request click sends a createRedistribution request only when
\* kioskId, destination, product and quantity are non-empty, the selected
\* product is in the loaded product list, the quantity parses (parseInt) to
\* an integer > 0 and that integer is <= the product's available_quantity;
\* otherwise the mutation fails with the message of the first failing check,
\* in the order 'Please fill all fields', 'Product not found', 'Invalid
\* quantity', 'Only N units available', and nothing is sent.  Nothing is
\* sent outside a Create Request click.
C4_CreateSendsOnlyValidated ==
    [][LET filled ==
               /\ kioskId # NULL
               /\ toKioskId # ""
               /\ selectedProduct # ""
               /\ quantity # <<>>
           listed == {p \in productsQuery.items : p.id = selectedProduct}
           qty == parseInt(quantity)
           message ==
               IF ~filled
               THEN [text |-> "Please fill all fields", n |-> 0]
               ELSE IF listed = {}
               THEN [text |-> "Product not found", n |-> 0]
               ELSE IF qty.nan \/ qty.val <= 0
               THEN [text |-> "Invalid quantity", n |-> 0]
               ELSE [text |-> "Only N units available",
                     n |-> (CHOOSE p \in listed : TRUE).available_quantity]
           valid ==
               /\ filled
               /\ listed # {}
               /\ ~qty.nan
               /\ qty.val > 0
               /\ \A p \in listed : qty.val <= p.available_quantity
       IN  /\ (\/ createSent' # createSent
               \/ (createMutation'.status = "pending"
                     /\ createMutation.status # "pending"))
                => submits' = submits + 1
           /\ submits' = submits + 1 =>
                IF valid
                THEN /\ createMutation'.status = "pending"
                     /\ createSent'.from_kiosk_id = kioskId
                     /\ createSent'.to_kiosk_id = toKioskId
                     /\ createSent'.items =
                          <<[sku |-> Sku(selectedProduct),
                             quantity |-> qty.val]>>
                ELSE /\ createSent' = createSent
                     /\ createMutation' =
                          [status |-> "error", error |-> message]
                     /\ createToast' =
                          [kind |-> "error", message |-> message]]_vars

\* C4 witness: Create Request was clicked with every field filled and a
\* listed product, for more units than the product has; the mutation has
\* failed with 'Only 1 units available' and no request was ever sent.
C4_Witness ==
    /\ submits > 0
    /\ kioskId # NULL /\ toKioskId # "" /\ quantity = <<"2">>
    /\ \E p \in productsQuery.items :
          p.id = selectedProduct /\ p.available_quantity = 1
    /\ createMutation =
         [status |-> "error",
          error |-> [text |-> "Only N units available", n |-> 1]]
    /\ createSent = NoRequest

\* C13: every createRedistribution request the dialog sends names a
\* destination kiosk other than the user's own kiosk, also when the
\* signed-in kiosk changes between selection and submission.
C13_DestinationDiffersFromSource ==
    createSent # NoRequest =>
        createSent.to_kiosk_id # createSent.from_kiosk_id

\* C16: when a create request succeeds the dialog is closed, the three form
\* fields are reset to empty, the success toast is shown and the
\* 'kiosk-redistributions' query is invalidated; when the mutation fails
\* (a validation or a server error) the fields and the open state stay as
\* they are and an error toast is shown; closing the dialog otherwise
\* (Cancel) does not reset the fields.
C16_CreateOutcome ==
    [][/\ (createMutation.status = "pending"
             /\ createMutation'.status = "success") =>
             /\ open' = FALSE
             /\ toKioskId' = "" /\ selectedProduct' = "" /\ quantity' = <<>>
             /\ createToast' =
                  [kind |-> "success",
                   message |->
                     [text |-> "Redistribution request created successfully!",
                      n |-> 0]]
             /\ createInvalidated' =
                  createInvalidated \cup {"kiosk-redistributions"}
       /\ (createMutation' # createMutation
             /\ createMutation'.status = "error") =>
             /\ UNCHANGED <<open, toKioskId, selectedProduct, quantity,
                            createInvalidated>>
             /\ createToast'.kind = "error"
             /\ createToast'.message.text =
                  IF createMutation'.error.text \notin {UNDEFINED, ""}
                  THEN createMutation'.error.text
                  ELSE "Failed to create request"
       /\ (open /\ ~open' /\ createMutation'.status # "success") =>
             UNCHANGED <<toKioskId, selectedProduct, quantity>>
      ]_vars

\* C16 witness: a create request has succeeded: the dialog is closed, the
\* form is empty, the success toast is shown and 'kiosk-redistributions' is
\* invalidated.
C16_Witness ==
    /\ createSent # NoRequest
    /\ createMutation.status = "success"
    /\ ~open
    /\ toKioskId = "" /\ selectedProduct = "" /\ quantity = <<>>
    /\ createToast.kind = "success"
    /\ createInvalidated = {"kiosk-redistributions"}

(***************************************************************************)
(* Claims about the admin page.                                            *)
(***************************************************************************)
\* The Pending Requests list shows exactly the redistributions the backend
\* holds as 'requested', and All Redistributions shows every redistribution
\* with the backend's status.
ListsShowBackend ==
    /\ redistributionsList =
         {Item(id) : id \in {r \in RedistIds : backend[r] = "requested"}}
    /\ allRedistributions = {Item(id) : id \in RedistIds}

\* C11: while the page is mounted and its polls' fetches keep succeeding, if
\* the backend's data stops changing then from some time on both displayed
\* lists equal the backend's answer: a redistribution that left 'requested'
\* is gone from Pending Requests and All Redistributions shows its status.
C11_ListsEventuallyShowBackend ==
    \A b \in [RedistIds -> BackendStatuses] :
        <>[](backend = b) => <>[]ListsShowBackend

\* C11 witness: r1 was shown as pending, left 'requested' at the backend, and
\* the polls have caught up: it is gone from Pending Requests and shown as
\* approved in All Redistributions.
C11_Witness ==
    /\ backend["r1"] = "approved"
    /\ lastApproveClick = "r1"
    /\ pendingQuery.hasData
    /\ \A item \in redistributionsList : item.id # "r1"
    /\ [id |-> "r1", status |-> "approved"] \in allRedistributions
    /\ ListsShowBackend

\* C5: approveRedistribution is called only in a Confirm Approval click that
\* follows an Approve click, and for the redistribution that the most recent
\* Approve click selected; no call names no redistribution.
C5_ApproveOnlyAfterSelectAndConfirm ==
    [][approveSent' # approveSent =>
          /\ confirms' = confirms + 1
          /\ lastApproveClick \in RedistIds
          /\ lastApproveClick' = lastApproveClick
          /\ Len(approveSent') = Len(approveSent) + 1
          /\ SubSeq(approveSent', 1, Len(approveSent)) = approveSent
          /\ approveSent'[Len(approveSent')].redistributionId
               = lastApproveClick]_vars

\* C5 witness: after an Approve click and a Confirm Approval click one call
\* is in flight; it is for the redistribution of that Approve click, which
\* is still selected in the open dialog.
C5_Witness ==
    /\ Len(approveSent) = 1
    /\ approveMutation.status = "pending"
    /\ approveDialogOpen
    /\ selectedRedist.id = lastApproveClick
    /\ approveSent[1].redistributionId = lastApproveClick
    /\ approveMutation.variables = lastApproveClick

\* C15: when an approve request succeeds the confirmation dialog is closed,
\* the selection is cleared, the success toast is shown and only the
\* pending-list query is invalidated; when the mutation fails the dialog's
\* open flag and the selection stay as they are, nothing is invalidated and
\* an error toast shows the error's message or 'Failed to approve
\* redistribution'.
C15_ApproveOutcome ==
    [][/\ (approveMutation.status = "pending"
             /\ approveMutation'.status = "success") =>
             /\ approveDialogOpen' = FALSE
             /\ selectedRedist' = NoRedist
             /\ adminToast' =
                  [kind |-> "success",
                   message |-> "Redistribution approved successfully!"]
             /\ invalidated' = invalidated \cup {"admin-redistributions"}
             /\ "admin-redistributions-progress" \notin invalidated'
       /\ (approveMutation' # approveMutation
             /\ approveMutation'.status = "error") =>
             /\ approveDialogOpen' = approveDialogOpen
             /\ selectedRedist' = selectedRedist
             /\ invalidated' = invalidated
             /\ adminToast' =
                  [kind |-> "error",
                   message |->
                     IF approveMutation'.error \notin {UNDEFINED, ""}
                     THEN approveMutation'.error
                     ELSE "Failed to approve redistribution"]
      ]_vars

\* C15 witness: an approve request for r1 was rejected by the server with
\* the message 'boom'; the dialog is still open with r1 selected, the error
\* toast shows 'boom' and nothing is invalidated.
C15_Witness ==
    /\ Len(approveSent) = 1
    /\ approveInFlight = 0
    /\ approveMutation.status = "error"
    /\ approveMutation.error = "boom"
    /\ approveDialogOpen
    /\ selectedRedist.id = "r1"
    /\ adminToast = [kind |-> "error", message |-> "boom"]
    /\ invalidated = {}

\* C17: at most one approve request is in flight; while an approval is
\* pending no click on Approve or Confirm Approval takes effect, so no other
\* approval is started and the selection stays as it is until the pending
\* one settles.  Likewise no Create Request click takes effect, and no
\* create request is sent, while a create request is pending.
C17_OneRequestInFlight ==
    [][/\ approveInFlight' <= 1
       /\ approveIsPending =>
             /\ approveSent' = approveSent
             /\ lastApproveClick' = lastApproveClick
             /\ confirms' = confirms
             /\ \/ selectedRedist' = selectedRedist
                \/ approveMutation'.status # "pending"
       /\ createIsPending =>
             /\ submits' = submits
             /\ createSent' = createSent
      ]_vars

\* C17 witness: the approval of r1 is in flight and the dialog was
\* dismissed; r2 is shown in Pending Requests (its Approve button disabled),
\* r1 is still the selection and no other request was sent.
C17_Witness ==
    /\ approveInFlight = 1
    /\ approveIsPending
    /\ ~approveDialogOpen
    /\ selectedRedist.id = "r1"
    /\ [id |-> "r2", status |-> "requested"] \in redistributionsList
    /\ Len(approveSent) = 1
    /\ confirms < MaxConfirms

\* C18: once an approve request for a redistribution has succeeded, the
\* page sends no other approve request for that redistribution.
C18_NoSecondApproveAfterSuccess ==
    [][approveSent' # approveSent =>
          approveSent'[Len(approveSent')].redistributionId
              \notin approvedIds]_vars

\* C6: a Confirm Approval click with a selection calls approveRedistribution
\* only with the non-empty wallet_address the admin-wallet query produced;
\* while the query has produced none, the mutation fails with 'Admin wallet
\* not found', no call is made and the error toast is shown.
C6_NoApproveWithoutWallet ==
    [][(confirms' = confirms + 1 /\ selectedRedist # NoRedist) =>
          IF walletQuery.status = "success" /\ walletQuery.data # ""
          THEN /\ Len(approveSent') = Len(approveSent) + 1
               /\ approveSent'[Len(approveSent')].admin_wallet
                    = walletQuery.data
          ELSE /\ approveSent' = approveSent
               /\ approveMutation'.status = "error"
               /\ approveMutation'.error = "Admin wallet not found"
               /\ adminToast' =
                    [kind |-> "error",
                     message |-> "Admin wallet not found"]]_vars

\* C6 witness: Confirm Approval was clicked while the admin-wallet query had
\* failed; the mutation has failed with 'Admin wallet not found', the toast
\* shows it and no call was made.
C6_Witness ==
    /\ confirms > 0
    /\ walletQuery.status = "error"
    /\ approveSent = <<>>
    /\ approveMutation.status = "error"
    /\ approveMutation.error = "Admin wallet not found"
    /\ adminToast = [kind |-> "error", message |-> "Admin wallet not found"]

\* C21: for a kiosk-role user, the create dialog's query for kiosks with id
\* different from the user's own kiosk returns every other kiosk, so the
\* destination list is non-empty whenever at least two kiosks exist.
C21_OperatorSeesEveryOtherKiosk ==
    (/\ lastOp.cmd = "SELECT kiosks"
     /\ [user_id |-> lastOp.uid, role |-> "kiosk"] \in user_roles
     /\ [user_id |-> lastOp.uid, kiosk_id |-> lastOp.id] \in profiles)
        => /\ lastOp.seen = Kiosks \ {lastOp.id}
           /\ lastOp.seen # {}

\* What the policies give instead: a user who is not an admin gets no row
\* from the other-kiosks query run for the kiosk of the user's own profile.
OperatorSeesNoOtherKiosk ==
    (/\ lastOp.cmd = "SELECT kiosks"
     /\ [user_id |-> lastOp.uid, role |-> "admin"] \notin user_roles
     /\ [user_id |-> lastOp.uid, kiosk_id |-> lastOp.id] \in profiles)
        => lastOp.seen = {}

\* An administrator gets every other kiosk from the same query.
AdminSeesEveryOtherKiosk ==
    (/\ lastOp.cmd = "SELECT kiosks"
     /\ [user_id |-> lastOp.uid, role |-> "admin"] \in user_roles)
        => lastOp.seen = Kiosks \ {lastOp.id}

\* A kiosk-role user has run the query for the user's own kiosk.
OperatorQueriedOtherKiosks ==
    /\ lastOp.cmd = "SELECT kiosks"
    /\ [user_id |-> lastOp.uid, role |-> "kiosk"] \in user_roles
    /\ [user_id |-> lastOp.uid, kiosk_id |-> lastOp.id] \in profiles

====
